---- MODULE Spec2Model ----
(***************************************************************************)
(* Model of nornir_salt.plugins.functions: ResultSerializer and            *)
(* TabulateFormatter.                                                      *)
(*                                                                         *)
(* Python values are tagged records (PyNone, Str, Bool, List, Dict, Exc),  *)
(* so that values of different Python types can sit in the same field.     *)
(* A Python dict with string keys is a TLA+ function from strings; the     *)
(* order of the keys inside one record is not modelled.  An ordered        *)
(* mapping whose order matters (the AggregatedResult, the returned ret)    *)
(* is a sequence of entries with distinct hostnames.                       *)
(***************************************************************************)
EXTENDS Integers, Sequences, FiniteSets, TLC

VARIABLES
    nr_results,         \* the AggregatedResult passed in
    add_details,        \* ResultSerializer: flag
    to_dict,            \* ResultSerializer: flag
    ret,                \* ResultSerializer: the dictionary being built
    pc,                 \* position in the running function
    hi,                 \* ResultSerializer: index of the host being processed
    ti,                 \* ResultSerializer: number of that host's tasks done
    HAS_TABULATE,       \* whether the tabulate library was imported
    result,             \* TabulateFormatter: the result argument
    objs,               \* the dictionaries a list argument refers to, by id
    caller_cfg,         \* content of the caller's object passed as tabulate
    tabulate,           \* TabulateFormatter: the local name tabulate
    headers,            \* TabulateFormatter: the local name headers
    headers_exclude,    \* TabulateFormatter: the local name headers_exclude
    result_to_tabulate, \* TabulateFormatter: local
    table_,             \* TabulateFormatter: local of the extend branch
    ei,                 \* number of iterations of the extend loop done
    out,                \* what the call returned
    exc,                \* the exception the call raised
    call                \* history: the arguments as they were at the call

varsRS == <<nr_results, add_details, to_dict, ret, hi, ti>>
varsTF == <<HAS_TABULATE, result, objs, caller_cfg, tabulate, headers,
            headers_exclude, result_to_tabulate, table_, ei, out, exc, call>>
vars == <<varsRS, varsTF, pc>>

---------------------------------------------------------------------------
(* Bounds *)

\* largest number of task results in one AggregatedResult, all hosts together
MaxTasks == 2

\* largest length of a list passed to TabulateFormatter
MaxRecords == 2

---------------------------------------------------------------------------
(* Python values *)

PyNone == [t |-> "none"]
Str(s) == [t |-> "str", s |-> s]
Bool(b) == [t |-> "bool", b |-> b]
List(l) == [t |-> "list", l |-> l]
Dict(d) == [t |-> "dict", d |-> d]
Exc(m) == [t |-> "exc", msg |-> m]

\* bool(v), as used by "if v" and "True if v else ..."
Truthy(v) ==
    CASE v.t = "none" -> FALSE
      [] v.t = "str" -> v.s # ""
      [] v.t = "bool" -> v.b
      [] v.t = "list" -> Len(v.l) > 0
      [] v.t = "dict" -> DOMAIN v.d # {}
      [] v.t = "exc" -> TRUE

\* str(v) for the values a task's exception attribute takes
PyStr(v) ==
    CASE v.t = "none" -> Str("None")
      [] v.t = "str" -> v
      [] v.t = "exc" -> Str(v.msg)
      [] v.t = "bool" -> Str(IF v.b THEN "True" ELSE "False")

\* the characters of the strings the model uses
Chars(s) ==
    CASE s = "" -> <<>>
      [] s = "_a" -> <<"_", "a">>
      [] s = "a" -> <<"a">>
      [] s = "b" -> <<"b">>
      [] s = "netmiko_send_commands" ->
            <<"n", "e", "t", "m", "i", "k", "o", "_", "s", "e", "n", "d",
              "_", "c", "o", "m", "m", "a", "n", "d", "s">>
      [] s = "keys" -> <<"k", "e", "y", "s">>
      [] s = "host" -> <<"h", "o", "s", "t">>
      [] s = "name" -> <<"n", "a", "m", "e">>
      [] s = "hostname" -> <<"h", "o", "s", "t", "n", "a", "m", "e">>
      [] s = "host, name" ->
            <<"h", "o", "s", "t", ",", " ", "n", "a", "m", "e">>
      [] s = "name, result" ->
            <<"n", "a", "m", "e", ",", " ", "r", "e", "s", "u", "l", "t">>
      [] s = "result" -> <<"r", "e", "s", "u", "l", "t">>
      [] s = "exception" -> <<"e", "x", "c", "e", "p", "t", "i", "o", "n">>
      [] s = "changed" -> <<"c", "h", "a", "n", "g", "e", "d">>
      [] s = "diff" -> <<"d", "i", "f", "f">>
      [] s = "failed" -> <<"f", "a", "i", "l", "e", "d">>
      [] s = "ip" -> <<"i", "p">>

\* the strings a split can give back
FieldNames ==
    {"", "host", "name", "hostname", "result", "exception", "changed",
     "diff", "failed", "ip", "keys"}

\* the string made of the given characters
FromChars(cs) == CHOOSE s \in FieldNames : Chars(s) = cs

\* s.startswith(p), p given by its characters
StartsWith(s, p) ==
    /\ Len(Chars(s)) >= Len(p)
    /\ SubSeq(Chars(s), 1, Len(p)) = p

\* x in l, for a list l
InList(x, l) == \E k \in 1..Len(l) : l[k] = x

\* d.get(k)
Get(d, k) == IF k \in DOMAIN d THEN d[k] ELSE PyNone

\* d[k] = v on a copy of d
Put(d, k, v) == [x \in DOMAIN d \cup {k} |-> IF x = k THEN v ELSE d[x]]

---------------------------------------------------------------------------
(* ResultSerializer *)

skip_tasks == <<"netmiko_send_commands">>

\* which branch of the if/elif chain a task result takes
BranchNoKnownSkip(i, host, ad) ==
    IF StartsWith(i.name, <<"_">>) THEN "skip_group"
    ELSE IF Truthy(Get(host, "exception")) THEN "host_exception"
    ELSE IF ad THEN "details"
    ELSE "result"

Branch(i, host, ad) ==
    IF StartsWith(i.name, <<"_">>) THEN "skip_group"
    ELSE IF InList(i.name, skip_tasks) THEN "skip_known"
    ELSE IF Truthy(Get(host, "exception")) THEN "host_exception"
    ELSE IF ad THEN "details"
    ELSE "result"

\* {"exception": i.host["exception"]}
HostExceptionFieldsWithResult(i, host) ==
    [exception |-> host["exception"], result |-> i.result]

HostExceptionFields(i, host) == [exception |-> host["exception"]]

\* the details dictionary of a task result
DetailFieldsFailedFlagOnly(i) ==
    [diff |-> i.diff,
     changed |-> i.changed,
     result |-> i.result,
     failed |-> i.failed,
     exception |-> PyStr(i.exception)]

DetailFields(i) ==
    [diff |-> i.diff,
     changed |-> i.changed,
     result |-> i.result,
     failed |-> IF Truthy(i.exception) THEN Bool(TRUE) ELSE i.failed,
     exception |-> PyStr(i.exception)]

\* the value stored under ret[hostname][i.name] when to_dict is true
DictValue(i, host, branch) ==
    CASE branch = "host_exception" -> Dict(HostExceptionFields(i, host))
      [] branch = "details" -> Dict(DetailFields(i))
      [] branch = "result" -> i.result

\* the dictionary appended to ret[hostname] when to_dict is false
ListRecord(i, host, branch) ==
    CASE branch = "host_exception" ->
            Put(HostExceptionFields(i, host), "name", Str(i.name))
      [] branch = "details" -> Put(DetailFields(i), "name", Str(i.name))
      [] branch = "result" -> [name |-> Str(i.name), result |-> i.result]

\* one iteration of "for i in results": tasks is ret[hostname]
SerializeTaskKeepFirst(tasks, i, host, ad, td) ==
    LET branch == Branch(i, host, ad) IN
    IF branch \in {"skip_group", "skip_known"} THEN tasks
    ELSE IF td
    THEN IF i.name \in DOMAIN tasks THEN tasks
         ELSE Put(tasks, i.name, DictValue(i, host, branch))
    ELSE Append(tasks, ListRecord(i, host, branch))

SerializeTask(tasks, i, host, ad, td) ==
    LET branch == Branch(i, host, ad) IN
    IF branch \in {"skip_group", "skip_known"} THEN tasks
    ELSE IF td THEN Put(tasks, i.name, DictValue(i, host, branch))
    ELSE Append(tasks, ListRecord(i, host, branch))

\* the whole inner loop over the first n task results of one host
RECURSIVE SerializeHost(_, _, _, _, _)
SerializeHost(results, n, host, ad, td) ==
    IF n = 0 THEN <<>>
    ELSE SerializeTask(SerializeHost(results, n - 1, host, ad, td),
                       results[n], host, ad, td)

\* the value ResultSerializer returns
ResultSerializer(c, ad, td) ==
    [k \in 1..Len(c) |->
        [hostname |-> c[k].hostname,
         tasks |-> SerializeHost(c[k].results, Len(c[k].results),
                                 c[k].host, ad, td)]]

---------------------------------------------------------------------------
(* Inputs *)

\* task results: every branch of the chain, two results under one name,
\* the four combinations of failed and exception
TaskOutcomes ==
    { [name |-> "_a", result |-> Str("r1"), changed |-> Bool(FALSE),
       failed |-> Bool(FALSE), diff |-> Str(""), exception |-> PyNone],
      [name |-> "netmiko_send_commands", result |-> PyNone,
       changed |-> Bool(FALSE), failed |-> Bool(FALSE), diff |-> Str(""),
       exception |-> PyNone],
      [name |-> "a", result |-> Str("r1"), changed |-> Bool(FALSE),
       failed |-> Bool(FALSE), diff |-> Str(""), exception |-> PyNone],
      [name |-> "a", result |-> Str("r2"), changed |-> Bool(TRUE),
       failed |-> Bool(TRUE), diff |-> Str("d"), exception |-> PyNone],
      [name |-> "b", result |-> Str("r1"), changed |-> Bool(FALSE),
       failed |-> Bool(FALSE), diff |-> Str(""), exception |-> Exc("boom")],
      [name |-> "b", result |-> List(<<Str("r1"), Str("r2")>>),
       changed |-> Bool(FALSE), failed |-> Bool(TRUE), diff |-> Str(""),
       exception |-> Exc("")] }

\* the data of a Host object: no "exception" key, an empty one, a set one
HostDatas == {<<>>, [exception |-> Str("")], [exception |-> Str("timeout")]}

HostNames == {"h1", "h2"}

SeqsUpTo(S, n) == UNION {[1..k -> S] : k \in 0..n}

HostEntries(tasks, datas) ==
    [hostname : HostNames, host : datas, results : SeqsUpTo(tasks, MaxTasks)]

\* AggregatedResult objects: hostnames are the keys of a dictionary, so no
\* two entries share one; every result of a host carries that Host object
CollectionsOf(tasks, datas) ==
    {<<>>}
    \cup {<<e>> : e \in HostEntries(tasks, datas)}
    \cup {p \in HostEntries(tasks, datas) \X HostEntries(tasks, datas) :
            /\ p[1].hostname # p[2].hostname
            /\ Len(p[1].results) + Len(p[2].results) <= MaxTasks}

Collections == CollectionsOf(TaskOutcomes, HostDatas)

---------------------------------------------------------------------------
(* ResultSerializer, statement by statement *)

\* the names TabulateFormatter uses, at rest
IdleTF ==
    /\ HAS_TABULATE = TRUE
    /\ result = PyNone
    /\ objs = <<>>
    /\ caller_cfg = PyNone
    /\ tabulate = PyNone
    /\ headers = PyNone
    /\ headers_exclude = PyNone
    /\ result_to_tabulate = PyNone
    /\ table_ = <<>>
    /\ ei = 0
    /\ out = PyNone
    /\ exc = PyNone
    /\ call = PyNone

InitRS ==
    /\ nr_results \in Collections
    /\ add_details \in BOOLEAN
    /\ to_dict \in BOOLEAN
    /\ ret = <<>>
    /\ pc = "hosts"
    /\ hi = 0
    /\ ti = 0
    /\ IdleTF

\* for hostname, results in nr_results.items(): ret[hostname] = {} or []
RS_NextHost ==
    /\ pc = "hosts"
    /\ hi < Len(nr_results)
    /\ hi' = hi + 1
    /\ ti' = 0
    /\ ret' = Append(ret, [hostname |-> nr_results[hi + 1].hostname,
                           tasks |-> <<>>])
    /\ pc' = "tasks"
    /\ UNCHANGED <<nr_results, add_details, to_dict, varsTF>>

\* one iteration of "for i in results" that takes the given branch
RS_Task(branch) ==
    /\ pc = "tasks"
    /\ ti < Len(nr_results[hi].results)
    /\ Branch(nr_results[hi].results[ti + 1], nr_results[hi].host,
              add_details) = branch
    /\ ret' = [ret EXCEPT ![hi].tasks =
                  SerializeTask(@, nr_results[hi].results[ti + 1],
                                nr_results[hi].host, add_details, to_dict)]
    /\ ti' = ti + 1
    /\ UNCHANGED <<nr_results, add_details, to_dict, pc, hi, varsTF>>

\* if i.name.startswith("_"): continue
RS_SkipGroupTask ==
    /\ pc = "tasks"
    /\ RS_Task("skip_group")

\* elif i.name in skip_tasks: continue
RS_SkipKnownTask ==
    /\ pc = "tasks"
    /\ RS_Task("skip_known")

\* elif i.host.get("exception"): ...
RS_HostException ==
    /\ pc = "tasks"
    /\ RS_Task("host_exception")

\* elif add_details: ...
RS_Details ==
    /\ pc = "tasks"
    /\ RS_Task("details")

\* else: ...
RS_Result ==
    /\ pc = "tasks"
    /\ RS_Task("result")

\* the inner loop is exhausted
RS_EndHost ==
    /\ pc = "tasks"
    /\ ti = Len(nr_results[hi].results)
    /\ pc' = "hosts"
    /\ UNCHANGED <<varsRS, varsTF>>

\* return ret
RS_Return ==
    /\ pc = "hosts"
    /\ hi = Len(nr_results)
    /\ pc' = "done"
    /\ UNCHANGED <<varsRS, varsTF>>

NextRS ==
    \/ RS_NextHost
    \/ RS_SkipGroupTask
    \/ RS_SkipKnownTask
    \/ RS_HostException
    \/ RS_Details
    \/ RS_Result
    \/ RS_EndHost
    \/ RS_Return

SpecRS == InitRS /\ [][NextRS]_vars

---------------------------------------------------------------------------
(* TabulateFormatter: helpers *)

\* a reference to the caller's dictionary number id
Ref(id) == [t |-> "ref", id |-> id]

\* the dictionary an item of a list stands for
Deref(item, heap) == IF item.t = "ref" THEN Dict(heap[item.id]) ELSE item

\* "," in s
HasComma(cs) == \E k \in 1..Len(cs) : cs[k] = ","

\* s.split(",")
RECURSIVE Split(_)
Split(cs) ==
    IF ~HasComma(cs) THEN <<cs>>
    ELSE LET k == CHOOSE k \in 1..Len(cs) :
                    cs[k] = "," /\ \A m \in 1..(k - 1) : cs[m] # ","
         IN  <<SubSeq(cs, 1, k - 1)>> \o Split(SubSeq(cs, k + 1, Len(cs)))

\* s.strip()
RECURSIVE Strip(_)
Strip(cs) ==
    IF cs = <<>> THEN cs
    ELSE IF cs[1] = " " THEN Strip(Tail(cs))
    ELSE IF cs[Len(cs)] = " " THEN Strip(SubSeq(cs, 1, Len(cs) - 1))
    ELSE cs

\* a in b, for two strings given by their characters
IsSubstring(a, b) ==
    \E k \in 0..(Len(b) - Len(a)) : SubSeq(b, k + 1, k + Len(a)) = a

\* the "check headers" statements, for headers and for headers_exclude
CheckHeaders(h) ==
    IF h.t = "str" /\ HasComma(Chars(h.s))
    THEN LET parts == Split(Chars(h.s))
         IN  List([k \in 1..Len(parts) |-> Str(FromChars(Strip(parts[k])))])
    ELSE h

\* which branch of "form tabulate parameters and results" is taken
ModeBranchAnyBool(tab) ==
    IF tab = Str("brief") THEN "brief"
    ELSE IF tab.t = "bool" THEN "true"
    ELSE IF tab = Str("extend") THEN "extend"
    ELSE IF tab.t = "dict" THEN "dict"
    ELSE "unsupported"

ModeBranch(tab) ==
    IF tab = Str("brief") THEN "brief"
    ELSE IF tab = Bool(TRUE) THEN "true"
    ELSE IF tab = Str("extend") THEN "extend"
    ELSE IF tab.t = "dict" THEN "dict"
    ELSE IF tab = Bool(FALSE) THEN "false"
    ELSE "unsupported"

BriefParameters ==
    Dict([tablefmt |-> Str("grid"),
          showindex |-> Bool(TRUE),
          headers |-> List(<<Str("host"), Str("name"), Str("result"),
                             Str("exception")>>)])

\* {**a, **b}
Merge(a, b) ==
    [k \in DOMAIN a \cup DOMAIN b |-> IF k \in DOMAIN b THEN b[k] ELSE a[k]]

\* d without the key k, as d.pop(k) leaves it
Without(d, k) == [x \in DOMAIN d \ {k} |-> d[x]]

\* the rows one record with a list result is extended to; res.pop("result")
\* runs first, so res has lost "result" when the rows are built
ExtendRows(res) ==
    LET elems == res["result"].l
        rest == Without(res, "result")
    IN  [k \in 1..Len(elems) |->
            IF elems[k].t = "dict" THEN Dict(Merge(rest, elems[k].d))
            ELSE Dict(Put(rest, "result", elems[k]))]

\* what "for res in result_to_tabulate" goes through: the keys of a
\* dictionary, the items of a list
Iterate(rtt) ==
    IF rtt.kind = "dict"
    THEN [k \in 1..Len(rtt.ret) |-> Str(rtt.ret[k].hostname)]
    ELSE rtt.items

\* k in headers_exclude
Excluded(k, he) ==
    IF he.t = "list" THEN InList(Str(k), he.l)
    ELSE IsSubstring(Chars(k), Chars(he.s))

\* {k: v for k, v in res.items() if k not in headers_exclude}
FilterRecord(rec, he) ==
    [k \in {x \in DOMAIN rec : ~Excluded(x, he)} |-> rec[k]]

\* [item.get(i, "") for i in tabulate["headers"]]
RowOf(rec, hs) ==
    List([k \in 1..Len(hs) |->
            IF hs[k].s \in DOMAIN rec THEN rec[hs[k].s] ELSE Str("")])

---------------------------------------------------------------------------
(* TabulateFormatter: inputs *)

\* records of the three shapes of a flat record, and one with more keys
Records ==
    { [name |-> Str("a"), result |-> Str("x")],
      [name |-> Str("a"),
       result |-> List(<<Str("x"),
                         Dict([name |-> Str("z"), ip |-> Str("10.0.0.1")]),
                         Str("y")>>)],
      [name |-> Str("b"), changed |-> Bool(FALSE), diff |-> Str(""),
       exception |-> Str("None"), failed |-> Bool(FALSE),
       result |-> List(<<>>)],
      [name |-> Str("a"), exception |-> Str("timeout")],
      [host |-> Str("h1"), hostname |-> Str("sw1"), name |-> Str("a"),
       result |-> Str("x")] }

\* a list of ids in which the ids 1..n all occur, in the order of their
\* numbers: every way n dictionaries can fill a list, repeats included
Canonical(ids, n) ==
    /\ {ids[j] : j \in 1..Len(ids)} = 1..n
    /\ \A j \in 1..Len(ids) : \A v \in 1..(ids[j] - 1) :
            \E m \in 1..(j - 1) : ids[m] = v

ListArguments ==
    UNION {{[kind |-> "list", ids |-> ids, objs |-> o] :
                o \in [1..n -> Records],
                ids \in {x \in SeqsUpTo(1..n, MaxRecords) : Canonical(x, n)}} :
           n \in 0..MaxRecords}

\* the AggregatedResult objects TabulateFormatter is called with
FormatterCollections ==
    CollectionsOf({i \in TaskOutcomes :
                      i.name \in {"_a", "a"} /\ i.result = Str("r1")},
                  {<<>>})

OtherArguments ==
    {[kind |-> "other", v |-> Str("text")],
     [kind |-> "other", v |-> Dict(<<>>)]}

Modes ==
    {Str("brief"), Bool(TRUE), Str("extend"), Bool(FALSE),
     Dict([tablefmt |-> Str("grid")]),
     Dict([headers |-> List(<<Str("name")>>)]),
     Str("fancy"), PyNone}

HeadersArguments ==
    {Str("keys"), List(<<Str("name"), Str("result")>>), Str("name, result")}

HeadersExcludeArguments ==
    {List(<<>>), List(<<Str("host")>>), Str("hostname"), Str("host, name")}

---------------------------------------------------------------------------
(* TabulateFormatter, statement by statement *)

InitTF ==
    /\ HAS_TABULATE \in BOOLEAN
    /\ \/ /\ nr_results \in FormatterCollections
          /\ result = [kind |-> "AggregatedResult"]
          /\ objs = <<>>
       \/ /\ nr_results = <<>>
          /\ \E a \in ListArguments :
                /\ result = [kind |-> "list", ids |-> a.ids]
                /\ objs = a.objs
       \/ /\ nr_results = <<>>
          /\ result \in OtherArguments
          /\ objs = <<>>
    /\ tabulate \in Modes
    /\ caller_cfg = tabulate
    /\ headers \in HeadersArguments
    /\ headers_exclude \in HeadersExcludeArguments
    /\ call = [tabulate |-> tabulate, headers |-> headers,
               headers_exclude |-> headers_exclude, objs |-> objs]
    /\ result_to_tabulate = PyNone
    /\ table_ = <<>>
    /\ ei = 0
    /\ out = PyNone
    /\ exc = PyNone
    /\ pc = "start"
    /\ add_details = FALSE
    /\ to_dict = FALSE
    /\ ret = <<>>
    /\ hi = 0
    /\ ti = 0

\* return result: the caller gets the object it passed
ReturnResult ==
    /\ out' = [kind |-> "result"]
    /\ pc' = "returned"

Raise(e) ==
    /\ exc' = Str(e)
    /\ pc' = "raised"

\* if not HAS_TABULATE: return result
TF_NoTabulate ==
    /\ pc = "start"
    /\ ~HAS_TABULATE
    /\ ReturnResult
    /\ UNCHANGED <<varsRS, HAS_TABULATE, result, objs, caller_cfg,
                   tabulate, headers, headers_exclude, result_to_tabulate,
                   table_, ei, exc, call>>

\* result_to_tabulate = ResultSerializer(result, add_details=True, to_dict=False)
TF_Aggregated ==
    /\ pc = "start"
    /\ HAS_TABULATE
    /\ result.kind = "AggregatedResult"
    /\ result_to_tabulate' =
            [kind |-> "dict", ret |-> ResultSerializer(nr_results, TRUE, FALSE)]
    /\ pc' = "headers"
    /\ UNCHANGED <<varsRS, HAS_TABULATE, result, objs, caller_cfg,
                   tabulate, headers, headers_exclude, table_, ei, out, exc,
                   call>>

\* result_to_tabulate = result
TF_List ==
    /\ pc = "start"
    /\ HAS_TABULATE
    /\ result.kind = "list"
    /\ result_to_tabulate' =
            [kind |-> "list",
             items |-> [j \in 1..Len(result.ids) |-> Ref(result.ids[j])]]
    /\ pc' = "headers"
    /\ UNCHANGED <<varsRS, HAS_TABULATE, result, objs, caller_cfg,
                   tabulate, headers, headers_exclude, table_, ei, out, exc,
                   call>>

\* unsupported results type: return result
TF_UnsupportedType ==
    /\ pc = "start"
    /\ HAS_TABULATE
    /\ result.kind \notin {"AggregatedResult", "list"}
    /\ ReturnResult
    /\ UNCHANGED <<varsRS, HAS_TABULATE, result, objs, caller_cfg,
                   tabulate, headers, headers_exclude, result_to_tabulate,
                   table_, ei, exc, call>>

\* check headers
TF_CheckHeaders ==
    /\ pc = "headers"
    /\ headers' = CheckHeaders(headers)
    /\ headers_exclude' = CheckHeaders(headers_exclude)
    /\ pc' = "mode"
    /\ UNCHANGED <<varsRS, HAS_TABULATE, result, objs, caller_cfg,
                   tabulate, result_to_tabulate, table_, ei, out, exc,
                   call>>

\* if tabulate == "brief"
TF_Brief ==
    /\ pc = "mode"
    /\ ModeBranch(tabulate) = "brief"
    /\ tabulate' = BriefParameters
    /\ pc' = "exclude"
    /\ UNCHANGED <<varsRS, HAS_TABULATE, result, objs, caller_cfg,
                   headers, headers_exclude, result_to_tabulate, table_, ei,
                   out, exc, call>>

\* elif tabulate == True
TF_True ==
    /\ pc = "mode"
    /\ ModeBranch(tabulate) = "true"
    /\ tabulate' = Dict([headers |-> headers])
    /\ pc' = "exclude"
    /\ UNCHANGED <<varsRS, HAS_TABULATE, result, objs, caller_cfg,
                   headers, headers_exclude, result_to_tabulate, table_, ei,
                   out, exc, call>>

\* elif tabulate == "extend": table_ = []; tabulate = {"headers": headers}
TF_Extend ==
    /\ pc = "mode"
    /\ ModeBranch(tabulate) = "extend"
    /\ table_' = <<>>
    /\ tabulate' = Dict([headers |-> headers])
    /\ ei' = 0
    /\ pc' = "extend"
    /\ UNCHANGED <<varsRS, HAS_TABULATE, result, objs, caller_cfg,
                   headers, headers_exclude, result_to_tabulate, out, exc,
                   call>>

\* res["result"] fails: res is a string, or a dictionary without "result"
TF_ExtendRaise ==
    /\ pc = "extend"
    /\ ei < Len(Iterate(result_to_tabulate))
    /\ LET res == Iterate(result_to_tabulate)[ei + 1] IN
       \/ /\ res.t = "str"
          /\ Raise("TypeError")
       \/ /\ res.t = "ref"
          /\ "result" \notin DOMAIN objs[res.id]
          /\ Raise("KeyError")
    /\ UNCHANGED <<varsRS, HAS_TABULATE, result, objs, caller_cfg,
                   tabulate, headers, headers_exclude, result_to_tabulate,
                   table_, ei, out, call>>

\* isinstance(res["result"], list): table_.extend(...), res.pop("result")
TF_ExtendList ==
    /\ pc = "extend"
    /\ ei < Len(Iterate(result_to_tabulate))
    /\ LET res == Iterate(result_to_tabulate)[ei + 1] IN
       /\ res.t = "ref"
       /\ "result" \in DOMAIN objs[res.id]
       /\ objs[res.id]["result"].t = "list"
       /\ table_' = table_ \o ExtendRows(objs[res.id])
       /\ objs' = [objs EXCEPT ![res.id] = Without(@, "result")]
    /\ ei' = ei + 1
    /\ UNCHANGED <<varsRS, HAS_TABULATE, result, caller_cfg, tabulate,
                   headers, headers_exclude, result_to_tabulate, out, exc, pc,
                   call>>

\* else: table_.append(res)
TF_ExtendAppend ==
    /\ pc = "extend"
    /\ ei < Len(Iterate(result_to_tabulate))
    /\ LET res == Iterate(result_to_tabulate)[ei + 1] IN
       /\ res.t = "ref"
       /\ "result" \in DOMAIN objs[res.id]
       /\ objs[res.id]["result"].t # "list"
       /\ table_' = Append(table_, res)
    /\ ei' = ei + 1
    /\ UNCHANGED <<varsRS, HAS_TABULATE, result, objs, caller_cfg,
                   tabulate, headers, headers_exclude, result_to_tabulate,
                   out, exc, pc, call>>

\* result_to_tabulate = table_
TF_ExtendEnd ==
    /\ pc = "extend"
    /\ ei = Len(Iterate(result_to_tabulate))
    /\ result_to_tabulate' = [kind |-> "list", items |-> table_]
    /\ pc' = "exclude"
    /\ UNCHANGED <<varsRS, HAS_TABULATE, result, objs, caller_cfg,
                   tabulate, headers, headers_exclude, table_, ei, out, exc,
                   call>>

\* elif isinstance(tabulate, dict): tabulate.setdefault("headers", headers);
\* tabulate is the caller's object
TF_Dict ==
    /\ pc = "mode"
    /\ ModeBranch(tabulate) = "dict"
    /\ tabulate' = IF "headers" \in DOMAIN tabulate.d THEN tabulate
                   ELSE Dict(Put(tabulate.d, "headers", headers))
    /\ caller_cfg' = tabulate'
    /\ pc' = "exclude"
    /\ UNCHANGED <<varsRS, HAS_TABULATE, result, objs, headers,
                   headers_exclude, result_to_tabulate, table_, ei, out, exc,
                   call>>

\* elif tabulate == False: return result
TF_False ==
    /\ pc = "mode"
    /\ ModeBranch(tabulate) = "false"
    /\ ReturnResult
    /\ UNCHANGED <<varsRS, HAS_TABULATE, result, objs, caller_cfg,
                   tabulate, headers, headers_exclude, result_to_tabulate,
                   table_, ei, exc, call>>

\* else: unsupported tabulate argument, return result
TF_UnsupportedMode ==
    /\ pc = "mode"
    /\ ModeBranch(tabulate) = "unsupported"
    /\ ReturnResult
    /\ UNCHANGED <<varsRS, HAS_TABULATE, result, objs, caller_cfg,
                   tabulate, headers, headers_exclude, result_to_tabulate,
                   table_, ei, exc, call>>

\* if headers_exclude: filter every record; res.items() fails on a string
TF_Exclude ==
    /\ pc = "exclude"
    /\ Truthy(headers_exclude)
    /\ LET its == Iterate(result_to_tabulate) IN
       \/ /\ \E j \in 1..Len(its) : its[j].t = "str"
          /\ Raise("AttributeError")
          /\ UNCHANGED result_to_tabulate
       \/ /\ \A j \in 1..Len(its) : its[j].t # "str"
          /\ result_to_tabulate' =
                [kind |-> "list",
                 items |-> [j \in 1..Len(its) |->
                              Dict(FilterRecord(Deref(its[j], objs).d,
                                                headers_exclude))]]
          /\ pc' = "rows"
          /\ UNCHANGED exc
    /\ UNCHANGED <<varsRS, HAS_TABULATE, result, objs, caller_cfg,
                   tabulate, headers, headers_exclude, table_, ei, out,
                   call>>

\* headers_exclude is empty
TF_NoExclude ==
    /\ pc = "exclude"
    /\ ~Truthy(headers_exclude)
    /\ pc' = "rows"
    /\ UNCHANGED <<varsRS, varsTF>>

\* if isinstance(tabulate["headers"], list): one row per item; item.get
\* fails on a string
TF_Rows ==
    /\ pc = "rows"
    /\ tabulate.d["headers"].t = "list"
    /\ LET its == Iterate(result_to_tabulate) IN
       \/ /\ \E j \in 1..Len(its) : its[j].t = "str"
          /\ Raise("AttributeError")
          /\ UNCHANGED result_to_tabulate
       \/ /\ \A j \in 1..Len(its) : its[j].t # "str"
          /\ result_to_tabulate' =
                [kind |-> "list",
                 items |-> [j \in 1..Len(its) |->
                              RowOf(Deref(its[j], objs).d,
                                    tabulate.d["headers"].l)]]
          /\ pc' = "render"
          /\ UNCHANGED exc
    /\ UNCHANGED <<varsRS, HAS_TABULATE, result, objs, caller_cfg,
                   tabulate, headers, headers_exclude, table_, ei, out,
                   call>>

\* tabulate["headers"] is no list: the records go to the library as they are
TF_NoRows ==
    /\ pc = "rows"
    /\ tabulate.d["headers"].t # "list"
    /\ pc' = "render"
    /\ UNCHANGED <<varsRS, varsTF>>

\* return tabulate_lib.tabulate(result_to_tabulate, **tabulate): the library
\* is given the table and the parameters, and its text is returned
TF_Render ==
    /\ pc = "render"
    /\ out' = [kind |-> "text",
               table |-> IF result_to_tabulate.kind = "dict"
                         THEN result_to_tabulate
                         ELSE [kind |-> "list",
                               items |-> [j \in 1..Len(result_to_tabulate.items)
                                            |-> Deref(result_to_tabulate.items[j],
                                                      objs)]],
               parameters |-> tabulate]
    /\ pc' = "returned"
    /\ UNCHANGED <<varsRS, HAS_TABULATE, result, objs, caller_cfg,
                   tabulate, headers, headers_exclude, result_to_tabulate,
                   table_, ei, exc, call>>

NextTF ==
    \/ TF_NoTabulate
    \/ TF_Aggregated
    \/ TF_List
    \/ TF_UnsupportedType
    \/ TF_CheckHeaders
    \/ TF_Brief
    \/ TF_True
    \/ TF_Extend
    \/ TF_ExtendRaise
    \/ TF_ExtendList
    \/ TF_ExtendAppend
    \/ TF_ExtendEnd
    \/ TF_Dict
    \/ TF_False
    \/ TF_UnsupportedMode
    \/ TF_Exclude
    \/ TF_NoExclude
    \/ TF_Rows
    \/ TF_NoRows
    \/ TF_Render

SpecTF == InitTF /\ [][NextTF]_vars

---------------------------------------------------------------------------
(* Properties of ResultSerializer *)

\* the task names the serializer must leave out
IsSkipped(n) == StartsWith(n, <<"_">>) \/ InList(n, skip_tasks)

\* the task results of host k the loop has gone through so far
Processed(k) ==
    IF k < hi \/ pc # "tasks" THEN nr_results[k].results
    ELSE SubSeq(nr_results[k].results, 1, ti)

KeptOf(results) == SelectSeq(results, LAMBDA i : ~IsSkipped(i.name))

\* the last kept task result of the given name
LastNamed(kept, n) ==
    kept[CHOOSE j \in 1..Len(kept) :
            /\ kept[j].name = n
            /\ \A m \in (j + 1)..Len(kept) : kept[m].name # n]

NamesOf(kept) == {kept[j].name : j \in 1..Len(kept)}

HostExceptionSet(k) ==
    /\ "exception" \in DOMAIN nr_results[k].host
    /\ nr_results[k].host["exception"] # PyNone
    /\ nr_results[k].host["exception"] # Str("")

\* C1: in every state of a run, for every flag combination, ret holds no key
\* (to_dict) and no record (list form) for a task whose name starts with "_"
\* or is in skip_tasks.
C1_SkippedNeverAppear ==
    \A k \in 1..Len(ret) :
        IF to_dict
        THEN \A n \in DOMAIN ret[k].tasks : ~IsSkipped(n)
        ELSE \A j \in 1..Len(ret[k].tasks) : ~IsSkipped(ret[k].tasks[j].name.s)

C1_Witness ==
    /\ pc = "done"
    /\ \E k \in 1..Len(ret) :
          /\ \E j \in 1..Len(nr_results[k].results) :
                nr_results[k].results[j].name = "netmiko_send_commands"
          /\ ret[k].tasks # <<>>

\* C2: for a host whose host-level exception is non-empty, whatever
\* add_details is, every kept task has the record {"exception": value} under
\* its name (to_dict), and the host's list is exactly the records
\* {"name": name, "exception": value} of the kept tasks in order (list form).
C2_HostExceptionRecord ==
    \A k \in 1..Len(ret) :
        HostExceptionSet(k) =>
            LET kept == KeptOf(Processed(k))
                e == nr_results[k].host["exception"]
            IN  IF to_dict
                THEN /\ DOMAIN ret[k].tasks = NamesOf(kept)
                     /\ \A n \in NamesOf(kept) :
                            ret[k].tasks[n] = Dict([exception |-> e])
                ELSE /\ Len(ret[k].tasks) = Len(kept)
                     /\ \A j \in 1..Len(kept) :
                            ret[k].tasks[j] =
                                [name |-> Str(kept[j].name), exception |-> e]

C2_Witness ==
    /\ pc = "done"
    /\ \E k \in 1..Len(ret) :
          /\ HostExceptionSet(k)
          /\ Len(KeptOf(nr_results[k].results)) = 2
          /\ Len(nr_results[k].results) = 2

\* the record add_details asks for, stated from the task result alone
DetailsExpected(i) ==
    [diff |-> i.diff,
     changed |-> i.changed,
     result |-> i.result,
     failed |-> IF i.exception # PyNone THEN Bool(TRUE) ELSE i.failed,
     exception |-> IF i.exception = PyNone THEN Str("None")
                   ELSE Str(i.exception.msg)]

Payload(rec) ==
    IF "result" \in DOMAIN rec THEN rec.result
    ELSE Dict([x \in DOMAIN rec \ {"name"} |-> rec[x]])

Triples(r, td) ==
    IF td
    THEN UNION {{<<r[k].hostname, n, r[k].tasks[n]>> :
                    n \in DOMAIN r[k].tasks} : k \in 1..Len(r)}
    ELSE UNION {{<<r[k].hostname, r[k].tasks[j].name.s,
                   Payload(r[k].tasks[j])>> :
                    j \in 1..Len(r[k].tasks)} : k \in 1..Len(r)}

\* the triples of the records that are the last of their name on their host
LastTriples(r) ==
    UNION {{<<r[k].hostname, r[k].tasks[j].name.s, Payload(r[k].tasks[j])>> :
              j \in {j \in 1..Len(r[k].tasks) :
                        \A m \in (j + 1)..Len(r[k].tasks) :
                            r[k].tasks[m].name # r[k].tasks[j].name}} :
           k \in 1..Len(r)}

OtherForm == ResultSerializer(nr_results, FALSE, ~to_dict)

\* C3 as stated: without add_details the two forms hold the same set of
\* (host, task name, result) triples, for every collection.
C3_SameTriples ==
    (pc = "done" /\ ~add_details) =>
        Triples(ret, to_dict) = Triples(OtherForm, ~to_dict)

\* C3 amended: without add_details the triples of the to_dict form are the
\* triples of those records of the list form that are the last of their name
\* on their host; the two sets are equal when no host has two kept tasks of
\* one name.
C3_DictIsLastOfList ==
    (pc = "done" /\ ~add_details) =>
        LET d == IF to_dict THEN ret ELSE OtherForm
            l == IF to_dict THEN OtherForm ELSE ret
        IN  /\ Triples(d, TRUE) = LastTriples(l)
            /\ (\A k \in 1..Len(l) : \A j, m \in 1..Len(l[k].tasks) :
                    l[k].tasks[j].name = l[k].tasks[m].name => j = m)
                => Triples(d, TRUE) = Triples(l, FALSE)

C3_Witness ==
    /\ pc = "done"
    /\ ~add_details
    /\ to_dict
    /\ \E k \in 1..Len(ret) :
          /\ ~HostExceptionSet(k)
          /\ Len(nr_results[k].results) = 2
          /\ nr_results[k].results[1].name = "a"
          /\ nr_results[k].results[2].name = "a"
          /\ nr_results[k].results[1].result # nr_results[k].results[2].result

---------------------------------------------------------------------------
(* Properties of TabulateFormatter *)

\* the key sets of the three shapes of a flat record
IsFlatRecord(rec) ==
    \/ DOMAIN rec = {"name", "result"}
    \/ DOMAIN rec = {"name", "changed", "diff", "exception", "failed", "result"}
    \/ DOMAIN rec = {"name", "exception"}

ListCall == HAS_TABULATE /\ result.kind = "list"

\* the records of the list argument as they were at the call, in list order
RecordsAtCall == [j \in 1..Len(result.ids) |-> call.objs[result.ids[j]]]

SupportedMode(m) ==
    \/ m \in {Str("brief"), Bool(TRUE), Str("extend"), Bool(FALSE)}
    \/ m.t = "dict"

\* C4 as stated: a call with an AggregatedResult or a list of flat records of
\* the three shapes, in any of the modes disabled, enabled, brief, extend and
\* custom mapping, does not raise.
C4_NeverRaises ==
    ( /\ SupportedMode(call.tabulate)
      /\ \/ result.kind = "AggregatedResult"
         \/ /\ result.kind = "list"
            /\ \A j \in 1..Len(result.ids) : IsFlatRecord(RecordsAtCall[j]) )
    => pc # "raised"

\* C5 as stated: at no point of a call do the caller's records or the
\* caller's configuration mapping differ from what they were at the call.
C5_InputsNotMutated ==
    /\ objs = call.objs
    /\ caller_cfg = call.tabulate

\* the field names a headers_exclude argument names
NamedFields(he) ==
    IF he.t = "list" THEN {he.l[k].s : k \in 1..Len(he.l)}
    ELSE LET parts == Split(Chars(he.s))
         IN  {FromChars(Strip(parts[k])) : k \in 1..Len(parts)}

\* the table the exclusion is applied to
TableBeforeExclude ==
    LET its == IF ModeBranch(call.tabulate) = "extend" THEN table_
               ELSE [j \in 1..Len(result.ids) |-> Ref(result.ids[j])]
    IN  [j \in 1..Len(its) |-> Deref(its[j], objs).d]

\* C6 as stated: after the exclusion with a non-empty headers_exclude, list
\* or string, every record has lost exactly the named fields and kept every
\* other field with its value, and excluding again changes nothing.
C6_ExcludesExactlyNamed ==
    (ListCall /\ pc = "rows" /\ Truthy(call.headers_exclude)) =>
        LET before == TableBeforeExclude
            after == result_to_tabulate.items
            named == NamedFields(call.headers_exclude)
        IN  /\ Len(after) = Len(before)
            /\ \A j \in 1..Len(before) :
                  /\ after[j].d = [k \in DOMAIN before[j] \ named |-> before[j][k]]
                  /\ FilterRecord(after[j].d, headers_exclude) = after[j].d

\* the rows extend mode is to make of one record
ExpectedRows(rec) ==
    IF rec["result"].t # "list" THEN <<Dict(rec)>>
    ELSE [k \in 1..Len(rec["result"].l) |->
            LET e == rec["result"].l[k]
                others == [x \in DOMAIN rec \ {"result"} |-> rec[x]]
            IN  IF e.t = "dict"
                THEN Dict([x \in DOMAIN others \cup DOMAIN e.d |->
                             IF x \in DOMAIN e.d THEN e.d[x] ELSE others[x]])
                ELSE Dict([x \in DOMAIN others \cup {"result"} |->
                             IF x = "result" THEN e ELSE others[x]])]

RECURSIVE ExpectedTable(_, _)
ExpectedTable(recs, n) ==
    IF n = 0 THEN <<>>
    ELSE ExpectedTable(recs, n - 1) \o ExpectedRows(recs[n])

ExtendCall ==
    /\ ListCall
    /\ call.tabulate = Str("extend")
    /\ \A j \in 1..Len(result.ids) : "result" \in DOMAIN RecordsAtCall[j]

\* C7 as stated: in extend mode, on a list of records that each have a
\* result field, the loop ends without raising, and the table it leaves is
\* the rows of the records in order: n rows for a list of n elements, the
\* record itself otherwise.
C7_ExtendTable ==
    ExtendCall =>
        /\ pc # "raised"
        /\ pc \in {"exclude", "rows", "render", "returned"} =>
              [j \in 1..Len(table_) |-> Deref(table_[j], objs)]
                  = ExpectedTable(RecordsAtCall, Len(RecordsAtCall))

\* The table of C7 on lists in which no dictionary occurs twice: there the
\* loop never meets a record it has already popped "result" from, and
\* C7_ExtendTable holds.
ExtendTableOfDistinctRecords ==
    (ListCall /\ \A j, m \in 1..Len(result.ids) :
                    result.ids[j] = result.ids[m] => j = m)
    => C7_ExtendTable

\* the cases in which the caller gets its own object back
PassThroughCase ==
    \/ call.tabulate = Bool(FALSE)
    \/ result.kind = "other"
    \/ ~SupportedMode(call.tabulate)

\* C8: when the mode is False, or the input is neither an AggregatedResult
\* nor a list, or the mode is none of brief, True, extend, False or a
\* mapping, the call never reaches the extend loop, the exclusion, the row
\* conversion or the library, never raises, returns the object it was given
\* and leaves that object as it was.
C8_ReturnsOriginal ==
    PassThroughCase =>
        /\ pc \in {"start", "headers", "mode", "returned"}
        /\ pc = "returned" => out = [kind |-> "result"]
        /\ objs = call.objs
        /\ caller_cfg = call.tabulate

C8_Witness ==
    /\ pc = "returned"
    /\ HAS_TABULATE
    /\ call.tabulate = Bool(FALSE)
    /\ result.kind = "list"
    /\ Len(result.ids) = 2
    /\ out = [kind |-> "result"]

\* the flat list C10 describes: every host's records from
\* ResultSerializer(add_details=True, to_dict=False), in host order, each with
\* the host it came from
RECURSIVE FlatRecords(_, _)
FlatRecords(r, n) ==
    IF n = 0 THEN <<>>
    ELSE FlatRecords(r, n - 1)
         \o [j \in 1..Len(r[n].tasks) |->
                Dict(Put(r[n].tasks[j], "host", Str(r[n].hostname)))]

\* C10 as stated: for an AggregatedResult, what the rows are built from is
\* the flat list of all hosts' records, each annotated with its host.
C10_FlatRecordList ==
    (result.kind = "AggregatedResult" /\ pc = "headers") =>
        Iterate(result_to_tabulate) =
            FlatRecords(ResultSerializer(nr_results, TRUE, FALSE),
                        Len(nr_results))

====
